---- MODULE Spec2Model ----
(***************************************************************************)
(* State-machine model of the breadth-first crawler of                     *)
(* scraping/flightaware_scraper.py (class FlightAwareScraper), of the      *)
(* ingestion of vector-store/vector_database_manager.py                    *)
(* (upload_json_to_pinecone) and of the startup of the chat service        *)
(* (app.lifespan, rag.initialize_rag_system).                              *)
(*                                                                         *)
(* A URL is the record [host, path, extra]: urlparse's netloc and path,    *)
(* and whatever follows the path (query string and/or fragment, "" when    *)
(* there is none).  The scheme is https throughout and is left out.        *)
(* Two URLs are the same Python string iff the records are equal.          *)
(***************************************************************************)
EXTENDS Integers, Sequences, FiniteSets, TLC

\* ------------------------------------------------------------------ bounds

\* largest max_pages tried (max_pages ranges over -1..MaxPages)
MaxPages == 2
\* longest seed list tried (base_urls ranges over lists of 0..MaxSeeds URLs)
MaxSeeds == 2
\* most <a href> anchors on one fetched page
MaxLinks == 3
\* longest file of records of every kind tried
MaxRichRecords == 2
\* longest file of one-document records tried
MaxRecords == 201

\* ------------------------------------------------------------ the web tried

Hosts == {"www.flightaware.com", "flightaware.com", "example.com"}

Paths == {"/", "/a", "/b"}

\* the paths that pages link to
LinkPaths == {"/a", "/b"}

\* what follows the path in a URL: nothing, or a query string / fragment
Extras == {"", "?q"}

URLs == [host : Hosts, path : Paths, extra : Extras]

\* the seed URLs tried: the root of a FlightAware host and of a foreign host
SeedURLs == {u \in URLs : u.path = "/" /\ u.extra = "" /\ u.host # "flightaware.com"}

\* seed URLs written with and without a query string
QuerySeedURLs == {u \in URLs : u.path = "/" /\ u.host = "www.flightaware.com"}

\* an href is absolute ("https://host/path?q") or an absolute-path reference
\* ("/path?q"), which urljoin resolves against the page it stands on
AbsHrefs ==
    {[kind |-> "abs", host |-> h, path |-> "/", extra |-> ""] : h \in Hosts \ {"www.flightaware.com"}}

PlainHrefs == {[kind |-> "rel", host |-> "", path |-> p, extra |-> ""] : p \in LinkPaths}

\* a link that differs from a plain one only by its query string
QueryHrefs == {[kind |-> "rel", host |-> "", path |-> "/a", extra |-> e] : e \in Extras \ {""}}

RelHrefs == PlainHrefs \cup QueryHrefs

Hrefs == AbsHrefs \cup RelHrefs

\* the text of a page once script/style/nav/footer/header are removed:
\* a sequence of characters, " " standing for any whitespace
RawTexts == {<<" ">>, <<" ", "x", " ", " ", "y">>}

RECURSIVE KSubsets(_, _)
\* the subsets of S with at most k elements
KSubsets(S, k) ==
    IF k = 0 THEN {{}}
    ELSE LET smaller == KSubsets(S, k - 1)
         IN  smaller \cup {T \cup {x} : T \in smaller, x \in S}

\* every order in which the elements of the set S can be iterated
Orders(S) ==
    {s \in [1..Cardinality(S) -> S] : \A i, j \in 1..Cardinality(S) : i # j => s[i] # s[j]}

SeqsUpTo(S, n) == UNION {[1..k -> S] : k \in 0..n}

Range(s) == {s[i] : i \in 1..Len(s)}

\* ------------------------------------------------------------------- state

VARIABLES
    base_urls,      \* self.base_urls: the seed list
    max_pages,      \* self.max_pages
    visited_urls,   \* self.visited_urls
    scraped_data,   \* self.scraped_data: list of page records
    urls_to_visit,  \* the deque of scrape(): the frontier
    soup,           \* scrape()'s local: result of the last get_page_content
    new_links,      \* scrape()'s local: result of the last extract_links
    pc,             \* "Idle" (constructed), "Running" (in the loop), "Done"
    fetch_log,      \* history: the URLs passed to session.get, in order
    depth,          \* history: URL -> depth at which it was first enqueued
    sleeps          \* history: the number of time.sleep(1) calls of scrape()

crawlVars == <<base_urls, max_pages, visited_urls, scraped_data, urls_to_visit,
               soup, new_links, pc, fetch_log, depth, sleeps>>

\* the ingestion of vector-store/vector_database_manager.py
VARIABLES
    api_key,        \* os.getenv("PINECONE_API_KEY") of the ingestion process
    index_exists,   \* whether index_name is among pc.list_indexes()
    index_vectors,  \* the index's total_vector_count
    json_data,      \* the list load_json_data() returns
    documents,      \* json_to_documents()'s list of Document objects
    batch_i,        \* create_vector_store()'s loop variable i
    saved_metadata, \* the dict save_metadata() writes, NoFile before
    ipc,            \* where upload_json_to_pinecone() is
    error,          \* the exception upload_json_to_pinecone() raised, "" if none
    calls,          \* history: the collaborator calls made, in order
    add_calls,      \* history: the batches passed to add_documents, as <<from, to>>
    split_calls,    \* history: record indices passed to text_splitter
    spans           \* history: per document, its record and its place in the text

ingestVars == <<api_key, index_exists, index_vectors, json_data, documents, batch_i,
                saved_metadata, ipc, error, calls, add_calls, split_calls, spans>>

\* the startup of the chat service of app.py and rag.py
VARIABLES
    chat_key,              \* os.getenv("PINECONE_API_KEY") of the service process
    llm,                   \* rag.llm, "None" until set
    embeddings,            \* rag.embeddings
    json_vector_store,     \* rag.json_vector_store
    pdf_vector_store,      \* rag.pdf_vector_store
    conversational_graph,  \* rag.conversational_graph
    agent_executor,        \* rag.agent_executor
    system_initialized,    \* app.system_initialized
    cpc,                   \* where lifespan() is
    chat_error,            \* the exception lifespan() caught, "" if none
    chat_calls             \* history: the collaborator calls made, in order

\* the requests the chat service handles
VARIABLES
    threads,               \* rag.memory_saver: thread_id -> the messages stored for it
    reply,                 \* history: the last operation and the reply it sent
    served,                \* history: the number of operations handled
    get_response_calls     \* history: the number of get_response calls

serveVars == <<threads, reply, served, get_response_calls>>

chatVars == <<chat_key, llm, embeddings, json_vector_store, pdf_vector_store,
              conversational_graph, agent_executor, system_initialized, cpc, chat_error,
              chat_calls, serveVars>>

vars == <<crawlVars, ingestVars, chatVars>>

\* get_page_content's None
NoSoup == [ok |-> FALSE, text |-> << >>, hrefs |-> {}]

\* the documents a successful fetch can return
Soups == {[ok |-> TRUE, text |-> t, hrefs |-> hs] : t \in RawTexts, hs \in KSubsets(Hrefs, MaxLinks)}

\* --------------------------------------------------------- pure functions

FlightAwareHosts == {"www.flightaware.com", "flightaware.com"}

\* faulty variant: any URL that has a host counts as in the domain
is_valid_url_AnyHost(url) == url.host # ""

is_valid_url(url) == url.host \in FlightAwareHosts

\* urljoin(current_url, href)
urljoin(current_url, href) ==
    IF href.kind = "abs"
    THEN [host |-> href.host, path |-> href.path, extra |-> href.extra]
    ELSE [host |-> current_url.host, path |-> href.path, extra |-> href.extra]

\* faulty variant: the query string and fragment are kept
clean_url_KeepExtra(absolute_url) == absolute_url

\* f"{parsed.scheme}://{parsed.netloc}{parsed.path}"
clean_url(absolute_url) ==
    [host |-> absolute_url.host, path |-> absolute_url.path, extra |-> ""]

\* faulty variant: the domain check is dropped from the filter
KeepLink_NoDomain(url, visited) == url \notin visited

\* faulty variant: the visited check is dropped from the filter
KeepLink_NoVisited(url, visited) == is_valid_url(url)

\* the filter of extract_links
KeepLink(url, visited) == is_valid_url(url) /\ url \notin visited

extract_links(s, current_url, visited) ==
    IF ~s.ok THEN {}
    ELSE {l \in {clean_url(urljoin(current_url, h)) : h \in s.hrefs} : KeepLink(l, visited)}

RECURSIVE SplitWords(_, _)
\* str.split(): the maximal runs of non-whitespace characters of text
\* (word is the run being read)
SplitWords(text, word) ==
    IF text = << >> THEN (IF word = << >> THEN << >> ELSE <<word>>)
    ELSE IF Head(text) = " "
         THEN (IF word = << >> THEN << >> ELSE <<word>>) \o SplitWords(Tail(text), << >>)
         ELSE SplitWords(Tail(text), Append(word, Head(text)))

RECURSIVE JoinWords(_)
\* ' '.join(words)
JoinWords(words) ==
    IF words = << >> THEN << >>
    ELSE IF Len(words) = 1 THEN Head(words)
    ELSE Head(words) \o <<" ">> \o JoinWords(Tail(words))

\* extract_page_data: the record of a fetched page (title, metadata and
\* flight_info do not bear on the crawl and are left out)
extract_page_data(s, url) ==
    [url |-> url, content |-> JoinWords(SplitWords(s.text, << >>))]

\* faulty variant: the record is appended whatever its content
AppendIfContent_Always(data, page_data) == Append(data, page_data)

\* if page_data.get('content'): self.scraped_data.append(page_data)
AppendIfContent(data, page_data) ==
    IF page_data.content # << >> THEN Append(data, page_data) ELSE data

\* faulty variant: the URL is not recorded as visited
MarkVisited_Forget(visited, url) == visited

\* self.visited_urls.add(current_url)
MarkVisited(visited, url) == visited \cup {url}

\* urls_to_visit.popleft(): the URL taken, and the deque left
PopUrl(q) == Head(q)

\* faulty variant: the URL is read but not removed from the deque
PopRest_Keep(q) == q

PopRest(q) == Tail(q)

\* faulty variant: the links are put at the front of the deque (depth-first)
Extend_Front(q, links) == links \o q

\* urls_to_visit.extend(new_links), links being new_links in iteration order
Extend(q, links) == q \o links

\* faulty variant: the page ceiling is off by one
LoopGuard_OffByOne == urls_to_visit # << >> /\ Cardinality(visited_urls) <= max_pages

\* the loop condition of scrape()
LoopGuard == urls_to_visit # << >> /\ Cardinality(visited_urls) < max_pages

\* ------------------------------------------------- ingestion: the texts
\* A text is a sequence of one-character strings, so len() is Len().

Min(S) == CHOOSE x \in S : \A y \in S : x <= y

Max(S) == 0 - Min({0 - x : x \in S})

\* the characters str.strip() removes that occur in the texts tried
Whitespace == {" ", "\n"}

\* n times the character c
Chars(c, n) == [k \in 1..n |-> c]

\* k words of w characters, one space between two words
Words(w, k) == [n \in 1..(k * (w + 1) - 1) |-> IF n % (w + 1) = 0 THEN " " ELSE "x"]

\* k paragraphs of p characters, a blank line between two paragraphs
Paragraphs(p, k) ==
    [n \in 1..(k * (p + 2) - 2) |-> IF n % (p + 2) \in {p + 1, 0} THEN "\n" ELSE "x"]

\* dict.get(key, default); a dict is a function on the keys it has
Get(d, key, default) == IF key \in DOMAIN d THEN d[key] ELSE default

\* the empty dict
EmptyDict == << >>

\* 'Unknown', the default of a missing title
Unknown == <<"U", "n", "k", "n", "o", "w", "n">>

\* the manager's constructor arguments (the ones of the __main__ block)
json_file == <<"scraping", "flightaware_data.json">>

\* Path.name: the last component of a path
PathName(path) == path[Len(path)]

index_name == "flightaware-data"

embedding_model == "text-embedding-3-large"

\* ---------------------------------------------- ingestion: the splitter
\* RecursiveCharacterTextSplitter(chunk_size=1000, chunk_overlap=200,
\* length_function=len, separators=["\n\n", "\n", " ", ""]), with the
\* library's defaults keep_separator=True and strip_whitespace=True.
\* With keep_separator=True the pieces of a split partition the text (each
\* piece starts with the separator that precedes it) and are merged with the
\* empty string between them, so a piece and a merged chunk are intervals
\* lo..hi of positions of the text.

chunk_size == 1000

chunk_overlap == 200

separators == <<"\n\n", "\n", " ", "">>

\* the start of the run of newlines that holds position p, not before lo
RunStart(text, lo, p) == Max({r \in lo..p : text[r] # "\n"} \cup {lo - 1}) + 1

\* where in text[lo..hi] the leftmost non-overlapping matches of sep start
\* (re.split); list(text) when sep is the empty string
MatchStarts(text, lo, hi, sep) ==
    IF sep = "" THEN lo..hi
    ELSE IF sep = "\n\n"
    THEN {p \in lo..(hi - 1) : /\ text[p] = "\n"
                               /\ text[p + 1] = "\n"
                               /\ (p - RunStart(text, lo, p)) % 2 = 0}
    ELSE {p \in lo..hi : text[p] = sep}

\* the last position of the piece that starts at s, the pieces of text[..hi]
\* starting at the positions starts
PieceEnd(starts, s, hi) ==
    LET near == {c \in starts : c > s /\ c <= s + chunk_size}
    IN  IF near # {} THEN Min(near) - 1
        ELSE IF s + chunk_size > hi THEN hi
        ELSE Min({c \in starts : c > s} \cup {hi + 1}) - 1

\* not (len(s) < chunk_size), for the piece s that starts at s
IsBig(starts, s, hi) ==
    /\ s + chunk_size - 1 <= hi
    /\ \A c \in (s + 1)..(s + chunk_size - 1) : c \notin starts

\* _join_docs: text[a..b] stripped, no chunk when nothing is left
strip(text, a, b) ==
    LET solid == {p \in a..b : text[p] \notin Whitespace}
    IN  IF solid = {} THEN << >> ELSE << <<Min(solid), Max(solid)>> >>

RECURSIVE _merge_splits(_, _, _, _)
\* _merge_splits on the pieces from position s to position e, all of them
\* shorter than chunk_size: fill a chunk up to chunk_size, emit it, drop
\* pieces from its front until at most chunk_overlap is left and the next
\* piece fits, go on
_merge_splits(text, starts, s, e) ==
    LET last == IF e <= s + chunk_size - 1 THEN e
                ELSE Max({c \in starts : s < c /\ c <= s + chunk_size}) - 1
        doc  == strip(text, s, last)
    IN  IF last = e THEN doc
        ELSE LET d     == last + 1
                 len_d == PieceEnd(starts, d, e) - d + 1
                 keep  == {k \in (starts \cap (s..last)) \cup {d} :
                              /\ k > s
                              /\ d - k <= chunk_overlap
                              /\ (d - k + len_d <= chunk_size \/ d - k = 0)}
             IN  doc \o _merge_splits(text, starts, Min(keep), e)

RECURSIVE _split_text(_, _, _, _)
RECURSIVE SplitFrom(_, _, _, _, _)
\* the loop of _split_text over the pieces from position s on: the pieces
\* shorter than chunk_size are merged, a longer one is split again with the
\* separators that remain (kept whole when none remains)
SplitFrom(text, starts, s, hi, new_separators) ==
    LET bigs == {b \in starts : b >= s /\ IsBig(starts, b, hi)}
    IN  IF bigs = {} THEN _merge_splits(text, starts, s, hi)
        ELSE LET b    == Min(bigs)
                 bend == PieceEnd(starts, b, hi)
                 good == IF b = s THEN << >> ELSE _merge_splits(text, starts, s, b - 1)
                 mid  == IF new_separators = << >> THEN << <<b, bend>> >>
                         ELSE _split_text(text, b, bend, new_separators)
                 rest == IF bend = hi THEN << >>
                         ELSE SplitFrom(text, starts, bend + 1, hi, new_separators)
             IN  good \o mid \o rest

\* _split_text: split on the first separator that occurs in the text
_split_text(text, lo, hi, seps) ==
    LET hits == {k \in 1..Len(seps) : seps[k] = "" \/ MatchStarts(text, lo, hi, seps[k]) # {}}
        k    == IF hits = {} THEN Len(seps) ELSE Min(hits)
        new_separators == IF hits = {} \/ seps[k] = "" THEN << >>
                          ELSE SubSeq(seps, k + 1, Len(seps))
        starts == {lo} \cup MatchStarts(text, lo, hi, seps[k])
    IN  SplitFrom(text, starts, lo, hi, new_separators)

\* faulty variant: the splitter returns the text as one chunk
split_text_Whole(text) == IF text = << >> THEN << >> ELSE << <<1, Len(text)>> >>

\* split_text: the chunks of text in order, each as <<first, last>> position
split_text(text) ==
    IF text = << >> THEN << >> ELSE _split_text(text, 1, Len(text), separators)

\* ------------------------------------------- ingestion: json_to_documents

\* f"Title: {title}\n\nContent: {content}"
TitleLabel == <<"T", "i", "t", "l", "e", ":", " ">>

ContentLabel == <<"\n", "\n", "C", "o", "n", "t", "e", "n", "t", ":", " ">>

\* faulty variant: the title and the content, no labels
full_content_Bare(title, content) == title \o content

full_content(title, content) == TitleLabel \o title \o ContentLabel \o content

\* the literal of `if len(full_content) > 1000`
split_threshold == 1000

\* faulty variant: no document is ever split
NeedsSplit_Never(text) == FALSE

NeedsSplit(text) == Len(text) > split_threshold

\* faulty variant: record_index counts from one
doc_metadata_OneBased(item, n) ==
    ("source" :> PathName(json_file)) @@ ("file_type" :> "json")
        @@ ("url" :> Get(item, "url", "Unknown"))
        @@ ("title" :> Get(item, "title", Unknown))
        @@ ("record_index" :> n + 1) @@ ("index_name" :> index_name)

\* doc_metadata of the record item at position n of the file
doc_metadata(item, n) ==
    LET metadata_dict == Get(item, "metadata", EmptyDict)
        base == ("source" :> PathName(json_file)) @@ ("file_type" :> "json")
                    @@ ("url" :> Get(item, "url", "Unknown"))
                    @@ ("title" :> Get(item, "title", Unknown))
                    @@ ("record_index" :> n) @@ ("index_name" :> index_name)
    IN  IF DOMAIN metadata_dict # {}
        THEN base @@ ("description" :> Get(metadata_dict, "description", ""))
                  @@ ("og_title" :> Get(metadata_dict, "og:title", ""))
        ELSE base

\* the body of json_to_documents' loop for the record item at position n:
\* the documents it adds, each with the interval of the text it holds
LoopBody(item, n) ==
    LET text == full_content(Get(item, "title", Unknown), Get(item, "content", << >>))
        meta == doc_metadata(item, n)
        cuts == IF NeedsSplit(text) THEN split_text(text) ELSE << <<1, Len(text)>> >>
    IN  [k \in 1..Len(cuts) |->
            [page_content |-> SubSeq(text, cuts[k][1], cuts[k][2]),
             metadata     |-> meta,
             span         |-> <<n, cuts[k][1], cuts[k][2]>>]]

RECURSIVE Concat(_, _, _)
\* f[lo] \o ... \o f[hi], f a function to sequences
Concat(f, lo, hi) ==
    IF lo > hi THEN << >>
    ELSE IF lo = hi THEN f[lo]
    ELSE LET mid == (lo + hi) \div 2
         IN  Concat(f, lo, mid) \o Concat(f, mid + 1, hi)

\* json_to_documents: what the loop adds for the records of data, in order,
\* each document with its span
json_to_documents(data) ==
    Concat([n \in 1..Len(data) |-> LoopBody(data[n], n - 1)], 1, Len(data))

\* the Document objects of out, without their spans
Documents(out) ==
    [k \in 1..Len(out) |-> [page_content |-> out[k].page_content,
                            metadata     |-> out[k].metadata]]

\* ------------------------------------------------ ingestion: the inputs

\* create_vector_store's batch_size
batch_size == 100

\* a record with no key at all: every field takes its default
EmptyItem == EmptyDict

Content1000 == Chars("x", 981)

Content1001 == Chars("x", 982)

Content2500 == Chars("x", 2500)

ContentWords == Words(40, 61)

ContentParagraphs == Paragraphs(832, 3)

FullMetadata == ("description" :> "d") @@ ("og:title" :> "o") @@ ("keywords" :> "k")

\* a record of the crawler: url, title, content and metadata
Item(title, content, metadata) ==
    ("url" :> "https://www.flightaware.com/a") @@ ("title" :> title)
        @@ ("content" :> content) @@ ("metadata" :> metadata)

\* the records tried: texts of 1000 and of 1001 characters, contents of 2500
\* characters without whitespace, of words and of paragraphs, a page without
\* title, metadata with all keys, with none of the two copied keys, and empty
RichItems ==
    {EmptyItem,
     Item(<<"t">>, <<"x", " ", "y">>, FullMetadata),
     Item(<<"t">>, Content1000, EmptyDict),
     Item(<<"t">>, Content1001, "keywords" :> "k"),
     Item(<<"t">>, Content2500, FullMetadata),
     Item(<< >>, ContentWords, EmptyDict),
     Item(<<"t">>, ContentParagraphs, FullMetadata)}

\* files of up to MaxRichRecords of these records
RichFiles == SeqsUpTo(RichItems, MaxRichRecords)

\* files of up to MaxRecords records that make one document each, of the
\* lengths next to a multiple of batch_size
LongFiles ==
    {[k \in 1..n |-> EmptyItem] : n \in {m \in 0..MaxRecords : m % batch_size \in {0, 1, batch_size - 1}}}

\* the vector counts an index may have before the ingestion
InitialVectors == {0, 7}

\* no file written
NoFile == EmptyDict

\* the ingestion is not part of the run
IngestOff ==
    /\ api_key = FALSE
    /\ index_exists = FALSE
    /\ index_vectors = 0
    /\ json_data = << >>
    /\ documents = << >>
    /\ batch_i = 0
    /\ saved_metadata = NoFile
    /\ ipc = "Off"
    /\ error = ""
    /\ calls = << >>
    /\ add_calls = << >>
    /\ split_calls = << >>
    /\ spans = << >>

\* the reply record of a process that has handled nothing yet
NoReply ==
    [op |-> "none", user_id |-> << >>, use_agent |-> FALSE, http |-> 0, body |-> << >>,
     path |-> << >>, history_len |-> 0, saw |-> {}]

\* no request was handled: MemorySaver() holds no thread
NothingServed ==
    /\ threads = << >>
    /\ reply = NoReply
    /\ served = 0
    /\ get_response_calls = 0

\* the chat service is not part of the run
ChatOff ==
    /\ chat_key = FALSE
    /\ llm = "None"
    /\ embeddings = "None"
    /\ json_vector_store = "None"
    /\ pdf_vector_store = "None"
    /\ conversational_graph = "None"
    /\ agent_executor = "None"
    /\ system_initialized = FALSE
    /\ cpc = "Off"
    /\ chat_error = ""
    /\ chat_calls = << >>
    /\ NothingServed

\* the crawler is not part of the run
CrawlOff ==
    /\ base_urls = << >>
    /\ max_pages = 0
    /\ visited_urls = {}
    /\ scraped_data = << >>
    /\ urls_to_visit = << >>
    /\ soup = NoSoup
    /\ new_links = {}
    /\ pc = "Off"
    /\ fetch_log = << >>
    /\ depth = << >>
    /\ sleeps = 0

\* ----------------------------------------------------------------- actions

\* the state after FlightAwareScraper(base_urls, max_pages), the seeds drawn
\* from the set seeds
CrawlInitWith(seeds) ==
    /\ base_urls \in SeqsUpTo(seeds, MaxSeeds)
    /\ max_pages \in (0 - 1)..MaxPages
    /\ visited_urls = {}
    /\ scraped_data = << >>
    /\ urls_to_visit = << >>
    /\ soup = NoSoup
    /\ new_links = {}
    /\ pc = "Idle"
    /\ fetch_log = << >>
    /\ depth = << >>
    /\ sleeps = 0
    /\ IngestOff
    /\ ChatOff

CrawlInit == CrawlInitWith(SeedURLs)

\* runs whose seeds are the FlightAware root with and without a query string
QuerySeedInit == CrawlInitWith(QuerySeedURLs)

\* scrape() up to the loop: urls_to_visit = deque(self.base_urls)
Start ==
    /\ UNCHANGED <<ingestVars, chatVars>>
    /\ pc = "Idle"
    /\ pc' = "Running"
    /\ urls_to_visit' = base_urls
    /\ depth' = [u \in Range(base_urls) |-> 0]
    /\ UNCHANGED <<base_urls, max_pages, visited_urls, scraped_data, soup, new_links, fetch_log,
                   sleeps>>

\* an iteration that pops an already visited URL: continue
SkipVisited ==
    /\ UNCHANGED <<ingestVars, chatVars>>
    /\ pc = "Running"
    /\ LoopGuard
    /\ PopUrl(urls_to_visit) \in visited_urls
    /\ urls_to_visit' = PopRest(urls_to_visit)
    /\ UNCHANGED <<base_urls, max_pages, visited_urls, scraped_data, soup, new_links, pc,
                   fetch_log, depth, sleeps>>

\* faulty variant: the RequestException is not caught and ends scrape()
FetchFail_Abort ==
    /\ UNCHANGED <<ingestVars, chatVars>>
    /\ pc = "Running"
    /\ LoopGuard
    /\ PopUrl(urls_to_visit) \notin visited_urls
    /\ LET current_url == PopUrl(urls_to_visit)
       IN  /\ visited_urls' = MarkVisited(visited_urls, current_url)
           /\ fetch_log' = Append(fetch_log, current_url)
           /\ soup' = NoSoup
           /\ urls_to_visit' = PopRest(urls_to_visit)
    /\ pc' = "Done"
    /\ UNCHANGED <<base_urls, max_pages, scraped_data, new_links, depth, sleeps>>

\* faulty variant: the delay is inside the `if soup` block
FetchFail_NoSleep ==
    /\ UNCHANGED <<ingestVars, chatVars>>
    /\ pc = "Running"
    /\ LoopGuard
    /\ PopUrl(urls_to_visit) \notin visited_urls
    /\ LET current_url == PopUrl(urls_to_visit)
       IN  /\ visited_urls' = MarkVisited(visited_urls, current_url)
           /\ fetch_log' = Append(fetch_log, current_url)
           /\ soup' = NoSoup
           /\ urls_to_visit' = PopRest(urls_to_visit)
    /\ UNCHANGED <<base_urls, max_pages, scraped_data, new_links, pc, depth, sleeps>>

\* an iteration whose get_page_content returns None (RequestException)
FetchFail ==
    /\ UNCHANGED <<ingestVars, chatVars>>
    /\ pc = "Running"
    /\ LoopGuard
    /\ PopUrl(urls_to_visit) \notin visited_urls
    /\ LET current_url == PopUrl(urls_to_visit)
       IN  /\ visited_urls' = MarkVisited(visited_urls, current_url)
           /\ fetch_log' = Append(fetch_log, current_url)
           /\ soup' = NoSoup
           /\ urls_to_visit' = PopRest(urls_to_visit)
    /\ sleeps' = sleeps + 1
    /\ UNCHANGED <<base_urls, max_pages, scraped_data, new_links, pc, depth>>

\* an iteration whose get_page_content returns a document
FetchOk ==
    /\ UNCHANGED <<ingestVars, chatVars>>
    /\ pc = "Running"
    /\ LoopGuard
    /\ PopUrl(urls_to_visit) \notin visited_urls
    /\ \E s \in Soups :
         LET current_url == PopUrl(urls_to_visit)
             visited == MarkVisited(visited_urls, current_url)
             links == extract_links(s, current_url, visited)
         IN  /\ visited_urls' = visited
             /\ fetch_log' = Append(fetch_log, current_url)
             /\ soup' = s
             /\ scraped_data' = AppendIfContent(scraped_data, extract_page_data(s, current_url))
             /\ new_links' = links
             /\ \E order \in Orders(links) :
                    urls_to_visit' = Extend(PopRest(urls_to_visit), order)
             /\ depth' = [u \in DOMAIN depth \cup links |->
                             IF u \in DOMAIN depth THEN depth[u] ELSE depth[current_url] + 1]
    /\ sleeps' = sleeps + 1
    /\ UNCHANGED <<base_urls, max_pages, pc>>

\* the loop condition is false: return self.scraped_data
Finish ==
    /\ UNCHANGED <<ingestVars, chatVars>>
    /\ pc = "Running"
    /\ ~LoopGuard
    /\ pc' = "Done"
    /\ UNCHANGED <<base_urls, max_pages, visited_urls, scraped_data, urls_to_visit, soup,
                   new_links, fetch_log, depth, sleeps>>

CrawlNext == Start \/ SkipVisited \/ FetchFail \/ FetchOk \/ Finish

CrawlSpec == CrawlInit /\ [][CrawlNext]_vars

QuerySeedSpec == QuerySeedInit /\ [][CrawlNext]_vars

\* the loop body always returns (each fetch returns within its timeout), so a
\* step that can be taken is eventually taken
CrawlFairSpec == CrawlSpec /\ WF_vars(CrawlNext)

\* ------------------------------------------------------ ingestion: actions


\* the state when upload_json_to_pinecone(json_file, index_name) is called:
\* every file of RichFiles with the key set and the index there and empty,
\* every file of LongFiles in every environment
IngestInit ==
    /\ CrawlOff
    /\ ChatOff
    /\ \/ /\ json_data \in RichFiles
          /\ api_key = TRUE
          /\ index_exists = TRUE
          /\ index_vectors = 0
       \/ /\ json_data \in LongFiles
          /\ api_key \in BOOLEAN
          /\ index_exists \in BOOLEAN
          /\ index_vectors \in IF index_exists THEN InitialVectors ELSE {0}
    /\ documents = << >>
    /\ batch_i = 0
    /\ saved_metadata = NoFile
    /\ ipc = "Called"
    /\ error = ""
    /\ calls = << >>
    /\ add_calls = << >>
    /\ split_calls = << >>
    /\ spans = << >>

\* JSONPineconeManager(...): setup_pinecone finds no PINECONE_API_KEY
NewManagerNoKey ==
    /\ UNCHANGED <<crawlVars, chatVars>>
    /\ ipc = "Called"
    /\ ~api_key
    /\ ipc' = "Raised"
    /\ error' = "ValueError"
    /\ UNCHANGED <<api_key, index_exists, index_vectors, json_data, documents, batch_i,
                   saved_metadata, calls, add_calls, split_calls, spans>>

\* faulty variant: the key is looked up after the index is connected
NewManager_KeyLast ==
    /\ UNCHANGED <<crawlVars, chatVars>>
    /\ ipc = "Called"
    /\ calls' = <<"Pinecone", "list_indexes">>
                    \o (IF index_exists THEN << >> ELSE <<"create_index">>)
                    \o <<"Index">>
                    \o (IF api_key THEN <<"OpenAIEmbeddings">> ELSE << >>)
    /\ index_exists' = TRUE
    /\ ipc' = IF api_key THEN "Constructed" ELSE "Raised"
    /\ error' = IF api_key THEN "" ELSE "ValueError"
    /\ UNCHANGED <<api_key, index_vectors, json_data, documents, batch_i, saved_metadata,
                   add_calls, split_calls, spans>>

\* JSONPineconeManager(...) with the key set: setup_pinecone creates the
\* client, lists the indexes, creates the index if it is not there and
\* connects to it; then the embeddings client and the splitter are made
NewManager ==
    /\ UNCHANGED <<crawlVars, chatVars>>
    /\ ipc = "Called"
    /\ api_key
    /\ calls' = <<"Pinecone", "list_indexes">>
                    \o (IF index_exists THEN << >> ELSE <<"create_index">>)
                    \o <<"Index", "OpenAIEmbeddings">>
    /\ index_exists' = TRUE
    /\ ipc' = "Constructed"
    /\ UNCHANGED <<api_key, index_vectors, json_data, documents, batch_i, saved_metadata,
                   error, add_calls, split_calls, spans>>

\* create_vector_store up to its loop: json_to_documents(), ValueError when
\* there is no document, else the PineconeVectorStore is made
CreateVectorStore ==
    /\ UNCHANGED <<crawlVars, chatVars>>
    /\ ipc = "Constructed"
    /\ \E out \in {json_to_documents(json_data)} :
           /\ documents' = Documents(out)
           /\ spans' = [k \in 1..Len(out) |-> out[k].span]
           /\ IF out = << >>
              THEN /\ ipc' = "Raised"
                   /\ error' = "ValueError"
                   /\ calls' = calls
              ELSE /\ ipc' = "Uploading"
                   /\ error' = error
                   /\ calls' = Append(calls, "PineconeVectorStore")
    /\ split_calls' = SelectSeq([k \in 1..Len(json_data) |-> k - 1],
                         LAMBDA n : NeedsSplit(full_content(
                             Get(json_data[n + 1], "title", Unknown),
                             Get(json_data[n + 1], "content", << >>))))
    /\ batch_i' = 0
    /\ UNCHANGED <<api_key, index_exists, index_vectors, json_data, saved_metadata, add_calls>>

\* faulty variant: the batches overlap by one document
RangeStep_Overlap(n) == n + batch_size - 1

\* range(0, len(documents), batch_size): the value after n
RangeStep(n) == n + batch_size

\* faulty variant: the slice stops one document short of the next batch
Batch_Short(docs, n) ==
    <<n + 1, IF n + batch_size < Len(docs) THEN n + batch_size - 1 ELSE Len(docs)>>

\* documents[n:n+batch_size], as the positions <<first, last>> it holds
Batch(docs, n) == <<n + 1, IF n + batch_size < Len(docs) THEN n + batch_size ELSE Len(docs)>>

\* faulty variant: the exception of add_documents is caught and the loop
\* goes on with the next batch
UploadFail_Swallow ==
    /\ UNCHANGED <<crawlVars, chatVars>>
    /\ ipc = "Uploading"
    /\ batch_i < Len(documents)
    /\ add_calls' = Append(add_calls, Batch(documents, batch_i))
    /\ calls' = Append(calls, "add_documents")
    /\ error' = "UploadError"
    /\ batch_i' = RangeStep(batch_i)
    /\ UNCHANGED <<api_key, index_exists, index_vectors, json_data, documents,
                   saved_metadata, ipc, split_calls, spans>>

\* an iteration of the upload loop whose add_documents raises: nothing
\* catches it, upload_json_to_pinecone ends with the exception
UploadFail ==
    /\ UNCHANGED <<crawlVars, chatVars>>
    /\ ipc = "Uploading"
    /\ batch_i < Len(documents)
    /\ add_calls' = Append(add_calls, Batch(documents, batch_i))
    /\ calls' = Append(calls, "add_documents")
    /\ error' = "UploadError"
    /\ ipc' = "Raised"
    /\ UNCHANGED <<api_key, index_exists, index_vectors, json_data, documents, batch_i,
                   saved_metadata, split_calls, spans>>

\* an iteration of the upload loop whose add_documents returns
UploadBatch ==
    /\ UNCHANGED <<crawlVars, chatVars>>
    /\ ipc = "Uploading"
    /\ batch_i < Len(documents)
    /\ LET batch == Batch(documents, batch_i)
       IN  /\ add_calls' = Append(add_calls, batch)
           /\ index_vectors' = index_vectors + (batch[2] - batch[1] + 1)
    /\ calls' = Append(calls, "add_documents")
    /\ batch_i' = RangeStep(batch_i)
    /\ UNCHANGED <<api_key, index_exists, json_data, documents, saved_metadata, ipc,
                   error, split_calls, spans>>

\* faulty variant: total_records counts the documents
save_metadata_CountsChunks ==
    ("data_type" :> "json") @@ ("embedding_model" :> embedding_model)
        @@ ("index_name" :> index_name) @@ ("json_file" :> json_file)
        @@ ("created_date" :> "now") @@ ("total_records" :> Len(documents))
        @@ ("pinecone_index_stats" :> [total_vector_count |-> index_vectors])

\* the dict save_metadata writes to json_pinecone_metadata_<index_name>.json
save_metadata ==
    ("data_type" :> "json") @@ ("embedding_model" :> embedding_model)
        @@ ("index_name" :> index_name) @@ ("json_file" :> json_file)
        @@ ("created_date" :> "now") @@ ("total_records" :> Len(json_data))
        @@ ("pinecone_index_stats" :> [total_vector_count |-> index_vectors])

\* the upload loop is over: create_and_upload_vector_store calls
\* save_metadata and upload_json_to_pinecone returns
SaveMetadata ==
    /\ UNCHANGED <<crawlVars, chatVars>>
    /\ ipc = "Uploading"
    /\ batch_i >= Len(documents)
    /\ saved_metadata' = save_metadata
    /\ calls' = Append(calls, "describe_index_stats")
    /\ ipc' = "Complete"
    /\ UNCHANGED <<api_key, index_exists, index_vectors, json_data, documents, batch_i, error,
                   add_calls, split_calls, spans>>

IngestNext ==
    \/ NewManagerNoKey
    \/ NewManager
    \/ CreateVectorStore
    \/ UploadFail
    \/ UploadBatch
    \/ SaveMetadata

IngestSpec == IngestInit /\ [][IngestNext]_vars

\* --------------------------------------------------- chat service: startup

\* the module globals of rag.py and app.py when lifespan() is entered
ChatInit ==
    /\ CrawlOff
    /\ IngestOff
    /\ chat_key \in BOOLEAN
    /\ llm = "None"
    /\ embeddings = "None"
    /\ json_vector_store = "None"
    /\ pdf_vector_store = "None"
    /\ conversational_graph = "None"
    /\ agent_executor = "None"
    /\ system_initialized = FALSE
    /\ cpc = "Starting"
    /\ chat_error = ""
    /\ chat_calls = << >>
    /\ NothingServed

\* initialize_models raises (init_chat_model finds no usable model): lifespan
\* catches it and lets the service start
InitializeModelsFail ==
    /\ UNCHANGED <<crawlVars, ingestVars>>
    /\ UNCHANGED serveVars
    /\ cpc = "Starting"
    /\ chat_calls' = Append(chat_calls, "init_chat_model")
    /\ chat_error' = "ModelError"
    /\ system_initialized' = FALSE
    /\ cpc' = "Serving"
    /\ UNCHANGED <<chat_key, llm, embeddings, json_vector_store, pdf_vector_store,
                   conversational_graph, agent_executor>>

\* initialize_models: the chat model and the embeddings client are made
initialize_models ==
    /\ UNCHANGED <<crawlVars, ingestVars>>
    /\ UNCHANGED serveVars
    /\ cpc = "Starting"
    /\ chat_calls' = chat_calls \o <<"init_chat_model", "OpenAIEmbeddings">>
    /\ llm' = "set"
    /\ embeddings' = "set"
    /\ cpc' = "Models"
    /\ UNCHANGED <<chat_key, json_vector_store, pdf_vector_store, conversational_graph,
                   agent_executor, system_initialized, chat_error>>

\* setup_pinecone_connections finds no PINECONE_API_KEY and raises
\* ValueError: lifespan catches it and lets the service start
SetupPineconeNoKey ==
    /\ UNCHANGED <<crawlVars, ingestVars>>
    /\ UNCHANGED serveVars
    /\ cpc = "Models"
    /\ ~chat_key
    /\ chat_error' = "ValueError"
    /\ system_initialized' = FALSE
    /\ cpc' = "Serving"
    /\ UNCHANGED <<chat_key, llm, embeddings, json_vector_store, pdf_vector_store,
                   conversational_graph, agent_executor, chat_calls>>

\* setup_pinecone_connections with the key set: the client is made and each
\* of the two indexes is connected, or left None when pc.Index raises
setup_pinecone_connections ==
    /\ UNCHANGED <<crawlVars, ingestVars>>
    /\ UNCHANGED serveVars
    /\ cpc = "Models"
    /\ chat_key
    /\ chat_calls' = chat_calls \o <<"Pinecone", "Index", "Index">>
    /\ json_vector_store' \in {"set", "None"}
    /\ pdf_vector_store' \in {"set", "None"}
    /\ cpc' = "Connected"
    /\ UNCHANGED <<chat_key, llm, embeddings, conversational_graph, agent_executor,
                   system_initialized, chat_error>>

\* the rest of initialize_rag_system (create_retrieval_tools,
\* setup_conversational_chain, setup_agent), then lifespan sets
\* system_initialized and yields
SetupGraphAndAgent ==
    /\ UNCHANGED <<crawlVars, ingestVars>>
    /\ UNCHANGED serveVars
    /\ cpc = "Connected"
    /\ conversational_graph' = "set"
    /\ agent_executor' = "set"
    /\ system_initialized' = TRUE
    /\ cpc' = "Serving"
    /\ UNCHANGED <<chat_key, llm, embeddings, json_vector_store, pdf_vector_store,
                   chat_error, chat_calls>>

ChatNext ==
    \/ InitializeModelsFail
    \/ initialize_models
    \/ SetupPineconeNoKey
    \/ setup_pinecone_connections
    \/ SetupGraphAndAgent

\* ------------------------------------------------------------ chat requests

\* the chat requests a run handles at most
MaxRequests == 2

\* the tool rounds the ReAct agent makes at most in one request
MaxToolRounds == 1

\* ChatRequest.user_id values: non-empty texts, one a prefix of the other
UserIds == {<<"a">>, <<"a", "b">>}

\* ChatRequest.query values: non-empty texts
Queries == {<<"q">>}

\* the texts an exception can carry
ExcTexts == {"connection reset", "validation error for ChatResponse", "broken pipe"}

\* str(e) of an exception with text e
Str(e) == <<e>>

\* the fixed texts of the replies
StreamApology ==
    <<"I'm experiencing some technical difficulties. Please try again or rephrase your question.">>

OuterApology ==
    <<"I apologize, but I encountered an error while processing your message. Please try again. If the problem persists, please contact support.">>

EmptyFallback ==
    <<"I'm here to help, but I'm having trouble processing your message right now. Could you please try rephrasing your question?">>

GenerateFallback ==
    <<"I'm experiencing some technical difficulties right now. Please try rephrasing your question or visit FlightAware.com for more information.">>

NotInitializedDetail ==
    <<"FlightAware system is not initialized. Please check server logs.">>

\* f"Error processing your message: {str(e)}"
ErrorDetail(e) == <<"Error processing your message: ">> \o Str(e)

\* faulty variant: every user shares one thread
get_user_config_Shared(user_id) == <<"u", "s", "e", "r", "_">>

\* get_user_config: the thread_id f"user_{user_id}"
get_user_config(user_id) == <<"u", "s", "e", "r", "_">> \o user_id

\* a message content: a str, or a list of content blocks (str = FALSE)
StrContent(text) == [str |-> TRUE, text |-> text]

\* the contents a chat model call can answer with: a text, the empty text, a
\* list of content blocks
LLMContents == {StrContent(<<"answer">>), StrContent(<< >>), [str |-> FALSE, text |-> <<"answer">>]}

\* the messages of a thread; by is history: the user_id of the request that
\* wrote the message
HumanMessage(content, by) ==
    [type |-> "human", content |-> StrContent(content), tool_calls |-> {}, marks |-> {}, by |-> by]

AIMessage(content, asked, by) ==
    [type |-> "ai", content |-> content, tool_calls |-> asked, marks |-> {}, by |-> by]

\* the two retrieval tools, in the order of the tools list
ToolNames == <<"retrieve_flightaware_data", "retrieve_documentation_data">>

\* the "Data Source: ..." line a tool writes for each document it retrieved
DataSourceOf(tool) == IF tool = "retrieve_flightaware_data" THEN "json" ELSE "pdf"

\* the vector store a tool searches
StoreOf(tool) ==
    IF tool = "retrieve_flightaware_data" THEN json_vector_store ELSE pdf_vector_store

\* the outcomes of a tool call, as the data source lines in its output: none
\* without store, none when the search raises or retrieves nothing
ToolOutputs(tool) == IF StoreOf(tool) = "None" THEN {{}} ELSE {{DataSourceOf(tool)}, {}}

\* the message of a tool call; marks are the data source lines in its content
ToolMessage(tool, marks, by) ==
    [type |-> "tool", content |-> StrContent(<<tool>>), tool_calls |-> {}, marks |-> marks, by |-> by]

\* ToolNode(tools): one tool message for each call of the last message
ToolNode(asked, by) ==
    LET For(tool) == IF tool \in asked
                     THEN {<<ToolMessage(tool, m, by)>> : m \in ToolOutputs(tool)}
                     ELSE {<< >>}
    IN  {a \o b : a \in For(ToolNames[1]), b \in For(ToolNames[2])}

\* the tool calls a model with the tools bound can ask for
ToolCallSets == (SUBSET Range(ToolNames)) \ {{}}

\* llm.bind_tools(tools).invoke(messages) when it returns: an answer or a
\* message with tool calls
LLMWithTools(by) ==
    {AIMessage(c, {}, by) : c \in LLMContents}
        \cup {AIMessage(StrContent(<< >>), asked, by) : asked \in ToolCallSets}

\* tools_condition: to the tool node when the last message has tool calls
tools_condition(message) == IF message.tool_calls # {} THEN "tools" ELSE "END"

\* generate_aviation_response: the answer of llm.invoke(prompt), or the
\* fallback message when it raises
generate_aviation_response(by) ==
    {AIMessage(StrContent(<<"answer">>), {}, by), AIMessage(StrContent(GenerateFallback), {}, by)}

\* a run of conversational_graph.stream: the messages the nodes add after
\* the input, the nodes visited, and whether a node raised
Run(msgs, path, raised) == [msgs |-> msgs, path |-> path, raised |-> raised]

\* faulty variant: the tool node is not followed by generate_response
AfterTools_End(first, tool_messages, by) ==
    {Run(<<first>> \o tool_messages, <<"process_query", "tools", "END">>, FALSE)}

\* the edges tools -> generate_response -> END
AfterTools(first, tool_messages, by) ==
    {Run(<<first>> \o tool_messages \o <<g>>,
         <<"process_query", "tools", "generate_response", "END">>, FALSE) :
        g \in generate_aviation_response(by)}

\* the runs of the graph of setup_conversational_chain: process_query raises
\* (nothing catches the exception of its llm call), or it answers and the
\* conditional edge ends the run, or it asks for tools
AssistantRuns(by) ==
    {Run(<< >>, <<"process_query">>, TRUE)}
        \cup UNION {IF tools_condition(first) = "END"
                    THEN {Run(<<first>>, <<"process_query", "END">>, FALSE)}
                    ELSE UNION {AfterTools(first, tm, by) : tm \in ToolNode(first.tool_calls, by)} :
                    first \in LLMWithTools(by)}

\* the runs of the agent of create_react_agent from its agent node, after
\* rounds tool rounds
RECURSIVE AgentFrom(_, _)
AgentFrom(by, rounds) ==
    {Run(<< >>, <<"agent">>, TRUE)}
        \cup {Run(<<AIMessage(c, {}, by)>>, <<"agent", "END">>, FALSE) : c \in LLMContents}
        \cup IF rounds >= MaxToolRounds THEN {}
             ELSE UNION {UNION {
                 {Run(<<AIMessage(StrContent(<< >>), asked, by)>> \o tm \o rest.msgs,
                      <<"agent", "tools">> \o rest.path, rest.raised) :
                     rest \in AgentFrom(by, rounds + 1)} :
                 tm \in ToolNode(asked, by)} : asked \in ToolCallSets}

AgentRuns(by) == AgentFrom(by, 0)

\* dict[key] = value
Put(d, key, value) == (key :> value) @@ d

\* the data source lines in the tool messages of all_messages
DataSourcesUsed(all_messages) ==
    UNION {all_messages[k].marks : k \in {j \in 1..Len(all_messages) : all_messages[j].type = "tool"}}

\* "both", "json", "pdf" or "none" from data_sources_used
DataSource(data_sources_used) ==
    IF Cardinality(data_sources_used) > 1 THEN "both"
    ELSE IF "json" \in data_sources_used THEN "json"
    ELSE IF "pdf" \in data_sources_used THEN "pdf"
    ELSE "none"

\* response_data as get_response first makes it (timestamp left out)
ResponseData(message, user_id, use_agent) ==
    ("user_id" :> user_id) @@ ("query" :> message) @@ ("response" :> StrContent(<< >>))
        @@ ("mode" :> IF use_agent THEN "agent" ELSE "assistant")
        @@ ("data_source" :> "none") @@ ("status_code" :> 200)

\* the dict the outer handler of get_response returns for exception e
OuterError(message, user_id, e) ==
    ("user_id" :> user_id) @@ ("query" :> message) @@ ("response" :> StrContent(OuterApology))
        @@ ("error" :> Str(e)) @@ ("mode" :> "error") @@ ("data_source" :> "none")
        @@ ("status_code" :> 500)

\* faulty variant: the stream handler puts the exception into the response
StreamError_Raw(data, e) ==
    Put(Put(Put(data, "response", StrContent(Str(e))), "data_source", "none"), "status_code", 500)

\* the dict the stream handler of get_response returns for exception e
StreamError(data, e) ==
    Put(Put(Put(data, "response", StrContent(StreamApology)), "data_source", "none"),
        "status_code", 500)

\* get_response after the stream call: run is what the stream did,
\* all_messages the messages of its last state, e the exception it raised and
\* print_exc the exception of print() in the stream handler ("" when print
\* returns)
get_response(message, user_id, use_agent, all_messages, run, e, print_exc) ==
    LET data == ResponseData(message, user_id, use_agent)
    IN  IF run.raised
        THEN IF print_exc # "" THEN OuterError(message, user_id, print_exc)
             ELSE StreamError(data, e)
        ELSE LET response == all_messages[Len(all_messages)].content
                 found == Put(Put(data, "response", response),
                              "data_source", DataSource(DataSourcesUsed(all_messages)))
             IN  IF response.text = << >>
                 THEN Put(Put(found, "response", StrContent(EmptyFallback)), "data_source", "none")
                 ELSE found

\* the reply of an operation: the HTTP status and body sent, and as history
\* the request, the nodes of its run, the length of the stored history it
\* started from and the users whose messages its run was given
Reply(op, user_id, use_agent, http, body, path, history_len, saw) ==
    [op |-> op, user_id |-> user_id, use_agent |-> use_agent, http |-> http, body |-> body,
     path |-> path, history_len |-> history_len, saw |-> saw]

\* ChatResponse(**response_data) and the handler around it: a response that
\* is no str fails validation and becomes HTTPException 500
ChatResponse(response_data) ==
    IF response_data["response"].str
    THEN [http |-> 200, body |-> Put(response_data, "response", response_data["response"].text)]
    ELSE [http |-> 500, body |-> ("detail" :> ErrorDetail("validation error for ChatResponse"))]

\* chat_endpoint before lifespan has set system_initialized: HTTPException
\* 503, get_response is not called
ChatNotReady ==
    /\ UNCHANGED <<crawlVars, ingestVars>>
    /\ cpc = "Serving"
    /\ ~system_initialized
    /\ served < MaxRequests
    /\ \E user_id \in UserIds, use_agent \in BOOLEAN :
           reply' = Reply("chat", user_id, use_agent, 503, ("detail" :> NotInitializedDetail),
                          << >>, 0, {})
    /\ served' = served + 1
    /\ UNCHANGED <<chat_key, llm, embeddings, json_vector_store, pdf_vector_store,
                   conversational_graph, agent_executor, system_initialized, cpc, chat_error,
                   chat_calls, threads, get_response_calls>>

\* faulty variant: chat_endpoint does not look at system_initialized
Ready_Always == TRUE

\* the guard of chat_endpoint
Ready == system_initialized

\* chat_endpoint with get_response: the stream of the graph (or the agent)
\* runs on the thread of the user and stores its messages there, the reply
\* is made from its last state
ServeChat(use_agent) ==
    /\ UNCHANGED <<crawlVars, ingestVars>>
    /\ cpc = "Serving"
    /\ Ready
    /\ served < MaxRequests
    /\ \E user_id \in UserIds, message \in Queries :
           LET thread_id == get_user_config(user_id)
               history == Get(threads, thread_id, << >>)
               input == history \o <<HumanMessage(message, user_id)>>
           IN  \E run \in (IF use_agent THEN AgentRuns(user_id) ELSE AssistantRuns(user_id)) :
               \E print_exc \in {""} \cup (IF run.raised THEN {"broken pipe"} ELSE {}) :
                   LET all_messages == input \o run.msgs
                       sent == ChatResponse(get_response(message, user_id, use_agent,
                                   all_messages, run, "connection reset", print_exc))
                   IN  /\ threads' = Put(threads, thread_id, all_messages)
                       /\ reply' = Reply("chat", user_id, use_agent, sent.http, sent.body,
                                         run.path, Len(history),
                                         {input[k].by : k \in 1..Len(input)})
    /\ served' = served + 1
    /\ get_response_calls' = get_response_calls + 1
    /\ UNCHANGED <<chat_key, llm, embeddings, json_vector_store, pdf_vector_store,
                   conversational_graph, agent_executor, system_initialized, cpc, chat_error,
                   chat_calls>>

\* POST /chat with use_agent false
ChatAssistant == ServeChat(FALSE)

\* POST /chat with use_agent true (the default)
ChatAgent == ServeChat(TRUE)

\* GET /health
HealthCheck ==
    /\ UNCHANGED <<crawlVars, ingestVars>>
    /\ cpc = "Serving"
    /\ reply' = Reply("health", << >>, FALSE, 200,
                      ("status" :> IF system_initialized THEN "healthy" ELSE "degraded")
                          @@ ("message" :> <<"FlightAware RAG API is running">>)
                          @@ ("pinecone_connected" :> system_initialized)
                          @@ ("models_loaded" :> system_initialized)
                          @@ ("status_code" :> 200),
                      << >>, 0, {})
    /\ UNCHANGED <<chat_key, llm, embeddings, json_vector_store, pdf_vector_store,
                   conversational_graph, agent_executor, system_initialized, cpc, chat_error,
                   chat_calls, threads, served, get_response_calls>>

\* the threads after clear_conversation(user_id): it prints and returns
Cleared(user_id) == threads

\* clear_conversation(user_id)
ClearConversation ==
    /\ UNCHANGED <<crawlVars, ingestVars>>
    /\ cpc = "Serving"
    /\ \E user_id \in UserIds :
           /\ threads' = Cleared(user_id)
           /\ reply' = Reply("clear", user_id, FALSE, 0,
                             ("printed" :> <<"Cleared conversation memory for user: ">> \o user_id),
                             << >>, 0, {})
    /\ UNCHANGED <<chat_key, llm, embeddings, json_vector_store, pdf_vector_store,
                   conversational_graph, agent_executor, system_initialized, cpc, chat_error,
                   chat_calls, served, get_response_calls>>

ServeNext ==
    \/ ChatNotReady
    \/ ChatAssistant
    \/ ChatAgent
    \/ HealthCheck
    \/ ClearConversation

\* the chat service from startup on
ChatSpec == ChatInit /\ [][ChatNext \/ ServeNext]_vars

\* one process is started: the ingestion or the chat service
StartupInit == IngestInit \/ ChatInit

StartupNext == IngestNext \/ ChatNext

StartupSpec == StartupInit /\ [][StartupNext]_vars

\* ------------------------------------------------------------------ claims

\* the two hosts named in is_valid_url, spelled out
FlightAwareDomain == {"www.flightaware.com", "flightaware.com"}

\* the canonical form of a URL: host and path, nothing after the path
Canonical(u) == [host |-> u.host, path |-> u.path, extra |-> ""]

NoDuplicates(s) == \A i, j \in 1..Len(s) : i # j => s[i] # s[j]

\* C1 as stated: in every state of a crawl run, for any max_pages,
\* |scraped_data| <= |visited_urls| <= max_pages.
C1_Original ==
    pc # "Idle" =>
        /\ Len(scraped_data) <= Cardinality(visited_urls)
        /\ Cardinality(visited_urls) <= max_pages

\* C1 amended: |scraped_data| <= |visited_urls| <= max_pages for max_pages >= 0;
\* for a negative max_pages the visited set stays empty.
C1_ResultsVisitedCeiling ==
    /\ Len(scraped_data) <= Cardinality(visited_urls)
    /\ Cardinality(visited_urls) <= (IF max_pages >= 0 THEN max_pages ELSE 0)

\* the ceiling is reached with URLs still in the frontier, and a page kept
C1_Witness ==
    /\ max_pages >= 1
    /\ Cardinality(visited_urls) = max_pages
    /\ urls_to_visit # << >>
    /\ Len(scraped_data) >= 1

\* C2: within one run no URL is fetched more than once, and every URL handed
\* to the fetch is in the visited set (it was added when it was popped), also
\* when it was enqueued several times or its fetch failed.
C2_NoRefetch ==
    /\ NoDuplicates(fetch_log)
    /\ Range(fetch_log) = visited_urls

\* a URL enqueued twice whose only fetch failed, its second entry dequeued
\* without a fetch
C2_Witness ==
    /\ Len(base_urls) = 2
    /\ base_urls[1] = base_urls[2]
    /\ max_pages = 2
    /\ Len(fetch_log) = 1
    /\ ~soup.ok
    /\ urls_to_visit = << >>

\* C3 as stated: extract_links never returns a URL whose host differs from the
\* host of the first seed URL.
C3_Original ==
    \A l \in new_links : base_urls # << >> /\ l.host = base_urls[1].host

\* C3 amended: extract_links never returns a URL whose host is other than
\* www.flightaware.com or flightaware.com, whatever the seeds and the hrefs.
C3_LinksInFlightAwareDomain ==
    \A l \in new_links : l.host \in FlightAwareDomain

\* a page with an absolute href to a foreign host from which links were kept
C3_Witness ==
    /\ soup.ok
    /\ \E h \in soup.hrefs : h.kind = "abs" /\ h.host = "example.com"
    /\ new_links # {}

\* the state after the first iteration of a run with a single seed whose fetch
\* succeeded
AfterFirstIteration == Len(base_urls) = 1 /\ Len(fetch_log) = 1 /\ soup.ok

\* the absolute URL an href of the first page stands for
Resolved(h) ==
    [host |-> IF h.kind = "abs" THEN h.host ELSE base_urls[1].host,
     path |-> h.path, extra |-> h.extra]

C5_Original ==
    /\ \A u \in DOMAIN depth : u.host \in FlightAwareDomain
    /\ \A u \in Range(fetch_log) : u.host \in FlightAwareDomain

\* C5 amended: every URL placed in the frontier by link extraction passes
\* is_valid_url; the seeds are enqueued unchecked, so a URL failing the check
\* is fetched only if it is a seed.
C5_OnlySeedsUnchecked ==
    /\ \A u \in DOMAIN depth : depth[u] > 0 => u.host \in FlightAwareDomain
    /\ \A u \in Range(urls_to_visit) \cup Range(fetch_log) :
           u \in Range(base_urls) \/ u.host \in FlightAwareDomain

\* a discovered URL has been fetched and its page links to a foreign host
C5_Witness ==
    /\ Len(fetch_log) = 2
    /\ fetch_log[2] \notin Range(base_urls)
    /\ soup.ok
    /\ \E h \in soup.hrefs : h.kind = "abs" /\ h.host = "example.com"

\* C6: every record of scraped_data has a non-empty content, and is the record
\* of a URL that was fetched: a page whose text is empty once whitespace is
\* collapsed, and a failed fetch, add no record.
C6_NoEmptyContent ==
    \A i \in 1..Len(scraped_data) :
        /\ scraped_data[i].content # << >>
        /\ scraped_data[i].url \in Range(fetch_log)

\* a page kept, then a page of whitespace only fetched and not kept
C6_Witness ==
    /\ Len(fetch_log) = 2
    /\ soup.ok
    /\ soup.text = <<" ">>
    /\ Len(scraped_data) = 1

\* a step that is an iteration whose fetch failed
FailedFetchStep == Len(fetch_log') = Len(fetch_log) + 1 /\ ~soup'.ok

\* C7: an iteration whose fetch fails leaves scraped_data as it is, enqueues
\* nothing (the frontier only loses the URL popped), adds that URL to the
\* visited set, and leaves the crawl in its loop.
C7_FetchFailureNotFatal ==
    [][FailedFetchStep =>
          /\ scraped_data' = scraped_data
          /\ urls_to_visit' = Tail(urls_to_visit)
          /\ visited_urls' = visited_urls \cup {Head(urls_to_visit)}
          /\ pc' = "Running"]_vars

\* the fetch of the second seed failed: the links found on the first seed's
\* page are still in the frontier and the loop is running
C7_Witness ==
    /\ Len(fetch_log) = 2
    /\ fetch_log[2] \in Range(base_urls)
    /\ ~soup.ok
    /\ Len(scraped_data) = 1
    /\ urls_to_visit # << >>
    /\ pc = "Running"

\* C8: a URL is not in the visited set at the moment it is appended to the
\* frontier (by the start of the run or by an iteration).
C8_NeverEnqueueVisited ==
    [][(pc = "Idle" \/ fetch_log' # fetch_log) =>
          \A i \in 1..Len(urls_to_visit') :
              i >= Len(urls_to_visit) => urls_to_visit'[i] \notin visited_urls']_vars

\* the same unvisited URL is in the frontier twice, put there by the link
\* extraction of two pages
C8_Witness ==
    /\ fetch_log # << >>
    /\ \E i, j \in 1..Len(urls_to_visit) :
          /\ i < j
          /\ urls_to_visit[i] = urls_to_visit[j]
          /\ urls_to_visit[i] \notin visited_urls
          /\ depth[urls_to_visit[i]] = 1

\* C9: URLs are fetched in non-decreasing depth order, and no unvisited URL in
\* the frontier is less deep than the URL fetched last.
C9_BreadthFirst ==
    /\ \A i, j \in 1..Len(fetch_log) :
          i < j => depth[fetch_log[i]] <= depth[fetch_log[j]]
    /\ \A u \in Range(urls_to_visit) \ visited_urls :
          fetch_log # << >> => depth[fetch_log[Len(fetch_log)]] <= depth[u]

\* a URL of depth 1 fetched second, with a URL of depth 1 and a URL of depth 2
\* pending behind it
C9_Witness ==
    /\ Len(fetch_log) = 2
    /\ depth[fetch_log[2]] = 1
    /\ \E u \in Range(urls_to_visit) : depth[u] = 1
    /\ \E u \in Range(urls_to_visit) : depth[u] = 2

\* C10: every crawl run reaches Done.
C10_Terminates == <>(pc = "Done")

\* a run ended by the page ceiling, with unvisited URLs left in the frontier
C10_Witness ==
    /\ pc = "Done"
    /\ Cardinality(visited_urls) = max_pages
    /\ \E u \in Range(urls_to_visit) : u \notin visited_urls

\* C11: one politeness delay follows each fetch attempt, successful or not,
\* and a dequeue of a visited URL makes neither a fetch nor a delay: between
\* iterations, and so at the end of the run, the number of delays equals the
\* number of fetch attempts and the size of the visited set.
C11_OneDelayPerFetch ==
    /\ sleeps = Len(fetch_log)
    /\ sleeps = Cardinality(visited_urls)

\* a finished run of one failed fetch and one dequeue of a visited URL
C11_Witness ==
    /\ pc = "Done"
    /\ Len(base_urls) = 2
    /\ base_urls[1] = base_urls[2]
    /\ max_pages = 2
    /\ urls_to_visit = << >>
    /\ ~soup.ok
    /\ sleeps = 1

\* C12 as stated: every record of scraped_data has a url in canonical form
\* (nothing after the path), records of seeds included, and no two records of
\* a run have the same canonical URL.
C12_Original ==
    /\ \A i \in 1..Len(scraped_data) : scraped_data[i].url = Canonical(scraped_data[i].url)
    /\ \A i, j \in 1..Len(scraped_data) :
          i # j => Canonical(scraped_data[i].url) # Canonical(scraped_data[j].url)

\* C12 amended: every record whose URL was found by link extraction has a url
\* in canonical form; the record of a seed has the seed as it was given, query
\* string and fragment included.  No two records of a run have the same url,
\* and when every seed is given in canonical form, every record's url is
\* canonical and no two records have the same canonical URL.
C12_SeedsKeptAsGiven ==
    /\ \A i \in 1..Len(scraped_data) :
          \/ scraped_data[i].url \in Range(base_urls)
          \/ scraped_data[i].url.extra = ""
    /\ \A i, j \in 1..Len(scraped_data) : i # j => scraped_data[i].url # scraped_data[j].url
    /\ (\A k \in 1..Len(base_urls) : base_urls[k].extra = "") =>
          \A i, j \in 1..Len(scraped_data) :
              /\ scraped_data[i].url.extra = ""
              /\ i # j => Canonical(scraped_data[i].url) # Canonical(scraped_data[j].url)

\* the record of a seed with a query string, then the record of a URL found
\* on its page through a link with a query string
C12_Witness ==
    /\ Len(scraped_data) = 2
    /\ scraped_data[1].url \in Range(base_urls)
    /\ scraped_data[1].url.extra # ""
    /\ scraped_data[2].url \notin Range(base_urls)
    /\ fetch_log = <<scraped_data[1].url, scraped_data[2].url>>
    /\ depth[scraped_data[2].url] = 1

\* ------------------------------------------------------- ingestion claims

\* json_to_documents has returned
Converted == ipc \in {"Uploading", "Complete"} \/ error = "UploadError"

\* the title and the content of the record at position n (from 1) of the file
TitleOf(n) == Get(json_data[n], "title", <<"U", "n", "k", "n", "o", "w", "n">>)

ContentOf(n) == Get(json_data[n], "content", << >>)

\* the positions in documents of the documents made from record n (from 1)
DocsOfRecord(n) == {k \in 1..Len(documents) : spans[k][1] = n - 1}

\* C13: every document made by json_to_documents has a page_content of at
\* most 1000 characters, whether the splitter cut it or it is a whole text.
C13_ChunksAtMost1000 ==
    \A k \in 1..Len(documents) : Len(documents[k].page_content) <= 1000

\* a whole text of exactly 1000 characters next to a chunk of exactly 1000
\* characters cut from a longer text
C13_Witness ==
    /\ Converted
    /\ \E k, m \in 1..Len(documents) :
          /\ Len(documents[k].page_content) = 1000
          /\ spans[k][1] \notin Range(split_calls)
          /\ Len(documents[m].page_content) = 1000
          /\ spans[m][1] \in Range(split_calls)

\* C14 as stated: the text of a record is its title followed by its content;
\* a record whose title and content have at most 1000 characters together
\* makes exactly one document that holds this text, and the splitter is
\* called for exactly the records whose title and content have more.
C14_Original ==
    Converted =>
        \A n \in 1..Len(json_data) :
            LET text == TitleOf(n) \o ContentOf(n)
            IN  /\ Len(text) <= 1000 =>
                      /\ Cardinality(DocsOfRecord(n)) = 1
                      /\ \A k \in DocsOfRecord(n) : documents[k].page_content = text
                /\ (n - 1) \in Range(split_calls) <=> Len(text) > 1000

\* the text json_to_documents builds for the record at position n
LabelledText(n) ==
    <<"T", "i", "t", "l", "e", ":", " ">> \o TitleOf(n)
        \o <<"\n", "\n", "C", "o", "n", "t", "e", "n", "t", ":", " ">> \o ContentOf(n)

\* C14 amended: the text of a record is "Title: ", the title, a blank line,
\* "Content: " and the content, 18 characters more than title and content;
\* when this text has at most 1000 characters the record makes exactly one
\* document that holds it unchanged, and the splitter is called for exactly
\* the records whose text has more than 1000 characters.
C14_LabelledTextBelowThreshold ==
    Converted =>
        \A n \in 1..Len(json_data) :
            /\ Len(LabelledText(n)) = Len(TitleOf(n)) + Len(ContentOf(n)) + 18
            /\ Len(LabelledText(n)) <= 1000 =>
                   /\ Cardinality(DocsOfRecord(n)) = 1
                   /\ \A k \in DocsOfRecord(n) : documents[k].page_content = LabelledText(n)
            /\ (n - 1) \in Range(split_calls) <=> Len(LabelledText(n)) > 1000

\* a record whose text has exactly 1000 characters and is not split, and a
\* record whose title and content have 983 characters and which is split
C14_Witness ==
    /\ Converted
    /\ \E n, m \in 1..Len(json_data) :
          /\ Len(LabelledText(n)) = 1000
          /\ (n - 1) \notin Range(split_calls)
          /\ Len(TitleOf(m)) + Len(ContentOf(m)) = 983
          /\ (m - 1) \in Range(split_calls)
          /\ Cardinality(DocsOfRecord(m)) = 2

\* how many characters document k shares with document k + 1 (negative: the
\* number of characters between them, negated)
Overlap(k) == spans[k][3] - spans[k + 1][2] + 1

C16_BatchCount ==
    ipc = "Complete" =>
        /\ Len(documents) >= 1
        /\ Len(add_calls) = (Len(documents) + 99) \div 100
        /\ Len(add_calls) * 100 >= Len(documents)
        /\ (Len(add_calls) - 1) * 100 < Len(documents)

\* 201 documents were uploaded with 3 calls
C16_Witness ==
    /\ ipc = "Complete"
    /\ Len(documents) = 201
    /\ Len(add_calls) = 3

\* C17: when add_documents raises for batch k, upload_json_to_pinecone ends
\* with that exception: the step that raises leaves the index as the earlier
\* batches made it and writes no summary, and once the exception is raised no
\* batch is submitted and nothing is changed any more.
C17_UploadFailurePropagates ==
    [][/\ error' = "UploadError" => ipc' = "Raised"
       /\ (error # "UploadError" /\ error' = "UploadError") =>
              /\ Len(add_calls') = Len(add_calls) + 1
              /\ index_vectors' = index_vectors
              /\ saved_metadata' = << >>
       /\ ipc = "Raised" =>
              /\ add_calls' = add_calls
              /\ index_vectors' = index_vectors
              /\ saved_metadata' = saved_metadata
              /\ ipc' = "Raised"]_vars

\* the second of three batches failed: the first batch is in the index, the
\* third was never submitted
C17_Witness ==
    /\ error = "UploadError"
    /\ ipc = "Raised"
    /\ Len(documents) = 201
    /\ add_calls = << <<1, 100>>, <<101, 200>> >>
    /\ index_vectors \in {100, 107}
    /\ saved_metadata = << >>

\* the entries of the summary that are counts
CountFields ==
    DOMAIN saved_metadata \ {"data_type", "embedding_model", "index_name", "json_file",
                             "created_date", "pinecone_index_stats"}

\* C18 as stated: after a successful ingestion the summary holds the number
\* of records, the number of documents, the index name, the embedding model
\* and the index statistics taken after the last upload.
C18_Original ==
    ipc = "Complete" =>
        /\ \E r, c \in CountFields :
              /\ r # c
              /\ saved_metadata[r] = Len(json_data)
              /\ saved_metadata[c] = Len(documents)
        /\ saved_metadata["index_name"] = "flightaware-data"
        /\ saved_metadata["embedding_model"] = "text-embedding-3-large"
        /\ saved_metadata["pinecone_index_stats"].total_vector_count = index_vectors

\* C18 amended: the summary is written only when the ingestion succeeds, and
\* holds exactly the data type, the embedding model, the index name, the path
\* of the JSON file, the creation time, the number of records and the index
\* statistics taken after the last upload; it holds no number of documents.
C18_SummaryWithoutChunkCount ==
    /\ ipc # "Complete" => saved_metadata = << >>
    /\ ipc = "Complete" =>
          /\ DOMAIN saved_metadata = {"data_type", "embedding_model", "index_name", "json_file",
                                      "created_date", "total_records", "pinecone_index_stats"}
          /\ saved_metadata["data_type"] = "json"
          /\ saved_metadata["embedding_model"] = "text-embedding-3-large"
          /\ saved_metadata["index_name"] = "flightaware-data"
          /\ saved_metadata["json_file"] = <<"scraping", "flightaware_data.json">>
          /\ saved_metadata["total_records"] = Len(json_data)
          /\ saved_metadata["pinecone_index_stats"].total_vector_count = index_vectors
          /\ calls[Len(calls)] = "describe_index_stats"
          /\ calls[Len(calls) - 1] = "add_documents"

\* a summary was written for a file whose records made more documents than
\* there are records
C18_Witness ==
    /\ ipc = "Complete"
    /\ Len(json_data) = 2
    /\ Len(documents) > 2
    /\ saved_metadata["total_records"] = 2

\* the metadata of the record at position n (from 1) of the file
MetadataOf(n) == Get(json_data[n], "metadata", << >>)

\* C19 as stated: every document carries as record_index the position from 0
\* of its record, and every entry of that record's metadata; the documents
\* are in the order of their records.
C19_Original ==
    Converted =>
        /\ \A k \in 1..Len(documents) :
              LET n == spans[k][1] + 1
              IN  /\ documents[k].metadata["record_index"] = n - 1
                  /\ \A key \in DOMAIN MetadataOf(n) :
                        /\ key \in DOMAIN documents[k].metadata
                        /\ documents[k].metadata[key] = MetadataOf(n)[key]
        /\ \A k \in 1..(Len(documents) - 1) :
              documents[k].metadata["record_index"] <= documents[k + 1].metadata["record_index"]

\* C19 amended: every document carries as record_index the position from 0
\* of its record, the documents are in the order of their records, and the
\* metadata of a document is: source (the file's name), file_type, url,
\* title, record_index and index_name, and, only when the record's metadata
\* is not empty, description and og_title, which are the record's
\* 'description' and 'og:title' ('' when it has none); no other entry of the
\* record's metadata is copied.
C19_RecordIndexAndTwoMetadataKeys ==
    Converted =>
        /\ \A k \in 1..Len(documents) :
              LET n  == spans[k][1] + 1
                  md == documents[k].metadata
              IN  /\ n \in 1..Len(json_data)
                  /\ md["record_index"] = n - 1
                  /\ md["source"] = "flightaware_data.json"
                  /\ md["file_type"] = "json"
                  /\ md["index_name"] = "flightaware-data"
                  /\ md["url"] = Get(json_data[n], "url", "Unknown")
                  /\ md["title"] = TitleOf(n)
                  /\ IF DOMAIN MetadataOf(n) = {}
                     THEN DOMAIN md = {"source", "file_type", "url", "title", "record_index",
                                       "index_name"}
                     ELSE /\ DOMAIN md = {"source", "file_type", "url", "title", "record_index",
                                          "index_name", "description", "og_title"}
                          /\ md["description"] = Get(MetadataOf(n), "description", "")
                          /\ md["og_title"] = Get(MetadataOf(n), "og:title", "")
        /\ \A k \in 1..(Len(documents) - 1) :
              documents[k].metadata["record_index"] <= documents[k + 1].metadata["record_index"]
        /\ \A n \in 1..Len(json_data) :
              Len(LabelledText(n)) <= 1000 => DocsOfRecord(n) # {}

\* five documents of record 0, whose metadata has a 'keywords' entry that no
\* document has, then two documents of record 1, whose metadata has neither
\* 'description' nor 'og:title'
C19_Witness ==
    /\ Converted
    /\ Len(json_data) = 2
    /\ Len(documents) = 7
    /\ Cardinality(DocsOfRecord(1)) = 5
    /\ "keywords" \in DOMAIN MetadataOf(1)
    /\ "description" \in DOMAIN MetadataOf(1)
    /\ documents[5].metadata["record_index"] = 0
    /\ documents[5].metadata["og_title"] = "o"
    /\ documents[6].metadata["record_index"] = 1
    /\ DOMAIN MetadataOf(2) = {"keywords"}
    /\ documents[7].metadata["description"] = ""

\* ----------------------------------------------------------- startup claim

\* C20 as stated: without PINECONE_API_KEY the ingestion and the chat
\* service both fail with the ValueError before any collaborator is called
\* and before any other initialization step has run.
C20_Original ==
    /\ (ipc # "Called" /\ ipc # "Off" /\ ~api_key) =>
          /\ error = "ValueError"
          /\ calls = << >>
    /\ (cpc = "Serving" /\ ~chat_key /\ chat_error = "ValueError") =>
          /\ chat_calls = << >>
          /\ llm = "None"
          /\ embeddings = "None"

\* C20 amended: without the key the ingestion fails with the ValueError in
\* the manager's constructor before any collaborator is called; the chat
\* service looks for the key in its second initialization step, after
\* initialize_models has made the chat model and the embeddings client: when
\* that first step succeeds the ValueError is raised before the Pinecone
\* client is made and before any index is connected, neither graph nor agent
\* is built, and the service starts with system_initialized false.
C20_KeyCheckedAfterModels ==
    /\ (ipc # "Called" /\ ipc # "Off" /\ ~api_key) =>
          /\ ipc = "Raised"
          /\ error = "ValueError"
          /\ calls = << >>
          /\ documents = << >>
          /\ add_calls = << >>
          /\ saved_metadata = << >>
    /\ (cpc = "Serving" /\ ~chat_key) =>
          /\ ~system_initialized
          /\ chat_error \in {"ValueError", "ModelError"}
          /\ chat_error = "ValueError" =>
                /\ chat_calls = <<"init_chat_model", "OpenAIEmbeddings">>
                /\ llm = "set"
                /\ embeddings = "set"
          /\ \A k \in 1..Len(chat_calls) : chat_calls[k] \notin {"Pinecone", "Index"}
          /\ json_vector_store = "None"
          /\ pdf_vector_store = "None"
          /\ conversational_graph = "None"
          /\ agent_executor = "None"

\* the chat service has started without the key: the ValueError was raised
\* with both model clients made
C20_Witness ==
    /\ cpc = "Serving"
    /\ ~chat_key
    /\ chat_error = "ValueError"
    /\ llm = "set"
    /\ embeddings = "set"
    /\ chat_calls = <<"init_chat_model", "OpenAIEmbeddings">>
    /\ ~system_initialized

\* the number of documents in a submitted batch <<first, last>>
BatchLen(b) == b[2] - b[1] + 1

\* C27: in an ingestion that ends without upload failure the submitted
\* batches, put one after the other in submission order, are the document
\* list in its order: the first batch starts at the first document, each
\* batch starts right after the one before, the last ends at the last
\* document, every batch holds 1 to 100 documents and every batch but the
\* last holds exactly 100.
C27_BatchesPartitionDocuments ==
    (ipc = "Complete" /\ error # "UploadError") =>
        /\ Len(add_calls) >= 1
        /\ add_calls[1][1] = 1
        /\ add_calls[Len(add_calls)][2] = Len(documents)
        /\ \A k \in 1..Len(add_calls) :
               /\ BatchLen(add_calls[k]) \in 1..100
               /\ k < Len(add_calls) =>
                      /\ BatchLen(add_calls[k]) = 100
                      /\ add_calls[k + 1][1] = add_calls[k][2] + 1

\* 201 documents went up as 100, 100 and 1
C27_Witness ==
    /\ ipc = "Complete"
    /\ error # "UploadError"
    /\ Len(documents) = 201
    /\ add_calls = << <<1, 100>>, <<101, 200>>, <<201, 201>> >>

\* initialize_rag_system raised in lifespan()
InitFailed == chat_error # ""

\* C21: when initialization fails at startup the service keeps running not
\* ready: system_initialized is false in every state, get_response is never
\* called, every reply to /chat has status 503 and every reply of /health
\* says "degraded".
C21_NotReadyAfterFailedInit ==
    InitFailed =>
        /\ cpc = "Serving"
        /\ ~system_initialized
        /\ get_response_calls = 0
        /\ threads = << >>
        /\ reply.op = "chat" =>
               /\ reply.http = 503
               /\ reply.body = ("detail" :> NotInitializedDetail)
        /\ reply.op = "health" =>
               /\ reply.http = 200
               /\ reply.body["status"] = "degraded"
               /\ ~reply.body["pinecone_connected"]
               /\ ~reply.body["models_loaded"]

\* the key was missing at startup; two chat requests were turned away and
\* /health now says degraded
C21_Witness ==
    /\ chat_error = "ValueError"
    /\ served = 2
    /\ get_response_calls = 0
    /\ reply.op = "health"
    /\ reply.body["status"] = "degraded"

\* the last operation was a chat request that got past the readiness guard
Handled == reply.op = "chat" /\ reply.http # 503

\* the stream of the last chat request raised: its run did not come to END
StreamRaised == reply.path # << >> /\ reply.path[Len(reply.path)] # "END"

\* the last chat request failed: the reply is an HTTP error or says 500
Failed == Handled /\ (reply.http = 500 \/ reply.body["status_code"] = 500)

\* a text holds the text of an exception
HasExcText(text) == \E k \in 1..Len(text) : text[k] \in ExcTexts

\* the fields of a reply body that hold free text
TextFields == {"response", "error", "detail"} \cap DOMAIN reply.body

\* C22 as stated: the reply to every failed chat request holds a fixed
\* apology and no field of it holds the text of the exception.
C22_Original ==
    Failed =>
        /\ "response" \in DOMAIN reply.body
        /\ reply.body["response"] \in {StreamApology, OuterApology}
        /\ \A f \in TextFields : ~HasExcText(reply.body[f])

\* C22: a chat request whose stream raises is answered with HTTP 200, a
\* body that says status_code 500, the fixed apology of the stream handler
\* and data_source "none", and no exception text in any field, unless the
\* outer handler of get_response took over, whose body has its own apology
\* in response, mode "error" and the text of the exception in error; a
\* failure in chat_endpoint itself is answered with HTTP 500 whose detail
\* ends with the text of the exception and holds no apology; no other
\* request fails.
C22_OnlyStreamFailuresHideTheException ==
    Handled =>
        IF reply.http = 500
        THEN /\ ~StreamRaised
             /\ DOMAIN reply.body = {"detail"}
             /\ reply.body["detail"][1] = "Error processing your message: "
             /\ HasExcText(reply.body["detail"])
        ELSE /\ reply.http = 200
             /\ StreamRaised <=> reply.body["status_code"] = 500
             /\ StreamRaised =>
                    /\ reply.body["data_source"] = "none"
                    /\ IF "error" \in DOMAIN reply.body
                       THEN /\ reply.body["response"] = OuterApology
                            /\ reply.body["mode"] = "error"
                            /\ HasExcText(reply.body["error"])
                       ELSE /\ reply.body["response"] = StreamApology
                            /\ reply.body["mode"] = IF reply.use_agent THEN "agent" ELSE "assistant"
                            /\ \A f \in TextFields : ~HasExcText(reply.body[f])

\* the agent stream raised and the client got the apology of the stream
\* handler
C22_Witness ==
    /\ Handled
    /\ reply.use_agent
    /\ StreamRaised
    /\ reply.http = 200
    /\ reply.body["status_code"] = 500
    /\ reply.body["response"] = StreamApology
    /\ "error" \notin DOMAIN reply.body

\* C23 as stated: after clear_conversation(user_id) the thread of that user
\* holds no message, and a chat request of the same user that comes next
\* starts from an empty history.
C23_ClearEmptiesTheHistory ==
    [][/\ (reply'.op = "clear" /\ reply' # reply) =>
              Get(threads', get_user_config(reply'.user_id), << >>) = << >>
       /\ (reply.op = "clear" /\ reply'.op = "chat" /\ reply'.http # 503
              /\ reply'.user_id = reply.user_id) =>
              reply'.history_len = 0]_vars

\* the run of the last chat request made a retrieval tool call
UsedTools == \E k \in 1..Len(reply.path) : reply.path[k] = "tools"

\* C24 as stated: the reply to a chat request that was answered without any
\* retrieval tool call has data_source "none", whatever the stored history
\* of the user holds.
C24_NoRetrievalReportsNone ==
    (Handled /\ reply.http = 200 /\ ~UsedTools) => reply.body["data_source"] = "none"

\* the last operation was a chat request handled in assistant mode
AssistantHandled == Handled /\ ~reply.use_agent

\* the two paths of the graph that reach END
DirectPath == <<"process_query", "END">>

RetrievalPath == <<"process_query", "tools", "generate_response", "END">>

\* the message process_query added in the last chat request
FirstAnswer == threads[get_user_config(reply.user_id)][reply.history_len + 2]

\* C25 as stated: every assistant mode request runs process_query then END,
\* or process_query, tools, generate_response then END.
C25_Original ==
    AssistantHandled => reply.path \in {DirectPath, RetrievalPath}

\* C25: an assistant mode request whose model call in process_query returns
\* runs process_query then END when the answer has no tool calls, and
\* process_query, tools, generate_response, END when it has: the tool node
\* runs at most once, generate_response follows it, and END is reached also
\* when the model call of generate_response fails; when the model call in
\* process_query raises the run ends there, END is not reached and the
\* client gets the reply of a failed stream.
C25_TwoPathsUnlessProcessQueryRaises ==
    AssistantHandled =>
        /\ reply.path \in {DirectPath, RetrievalPath, <<"process_query">>}
        /\ reply.path = <<"process_query">> =>
               /\ reply.http = 200
               /\ reply.body["status_code"] = 500
               /\ reply.body["response"] \in {StreamApology, OuterApology}
        /\ reply.path # <<"process_query">> =>
               /\ reply.http = 200 => reply.body["status_code"] = 200
               /\ reply.path = DirectPath <=> FirstAnswer.tool_calls = {}
               /\ reply.path = RetrievalPath <=> FirstAnswer.tool_calls # {}

\* a request went through the tool node, the model call of
\* generate_response failed, and the run still came to END with the fallback
\* answer
C25_Witness ==
    /\ AssistantHandled
    /\ reply.path = RetrievalPath
    /\ reply.http = 200
    /\ reply.body["response"] = GenerateFallback

\* the messages stored for thread t, none when the thread does not exist
Stored(t) == Get(threads, t, << >>)

\* s is the beginning of t
IsPrefix(s, t) == Len(s) <= Len(t) /\ \A k \in 1..Len(s) : t[k] = s[k]

\* C26: distinct user_ids have distinct threads, and a chat request of user A
\* that is handled starts from the messages stored for A's thread, hands
\* only messages written for A to its run, appends to A's thread (which
\* exists from then on), and leaves the thread of every other user as it
\* was.
C26_SessionsIsolated ==
    [][/\ \A A \in UserIds, B \in UserIds :
              A # B => get_user_config(A) # get_user_config(B)
       /\ (served' = served + 1 /\ reply'.op = "chat" /\ reply'.http # 503) =>
              LET A == reply'.user_id
                  mine == get_user_config(A)
              IN  /\ reply'.history_len = Len(Stored(mine))
                  /\ reply'.saw = {A}
                  /\ mine \in DOMAIN threads'
                  /\ IsPrefix(Stored(mine), threads'[mine])
                  /\ Len(threads'[mine]) > Len(Stored(mine))
                  /\ \A k \in 1..Len(threads'[mine]) : threads'[mine][k].by = A
                  /\ DOMAIN threads' = DOMAIN threads \cup {mine}
                  /\ \A B \in UserIds \ {A} :
                         LET other == get_user_config(B)
                         IN  /\ other \in DOMAIN threads' <=> other \in DOMAIN threads
                             /\ other \in DOMAIN threads => threads'[other] = threads[other]]_vars

\* user "a" has a stored exchange, and the first request of user "ab" has
\* just been answered from an empty history of its own
C26_Witness ==
    /\ Handled
    /\ reply.user_id = <<"a", "b">>
    /\ reply.history_len = 0
    /\ reply.saw = {<<"a", "b">>}
    /\ Cardinality(DOMAIN threads) = 2
    /\ Len(Stored(get_user_config(<<"a">>))) >= 2

====
